---- MODULE Spec2Model ----
(***************************************************************************)
(* Model of app3.py: the scrape-to-tidy-table pipeline                     *)
(*   get_stock_financials -> convert_to_dataframe -> processed_dataframe   *)
(* and the Streamlit request handler that drives it.                       *)
(*                                                                         *)
(* Text is modelled as a sequence of one-character strings, so that the    *)
(* regular expressions, str.split, str.strip and the f-string formatting   *)
(* of the code are computed character by character.                        *)
(***************************************************************************)
EXTENDS Integers, Sequences, FiniteSets, TLC

VARIABLES
    pc,             \* position of the request handler (lines 257-280)
    page,           \* what requests.get / BeautifulSoup see for stock_url
    ret,            \* the value get_stock_financials returned
    stock_info,     \* line 257: the JSON text (as its parsed structure) or None
    currency_info,  \* line 257: the currency <div> tag or None
    columns,        \* line 263: the extra columns picked in the multiselect
    stock_info_df,  \* line 264: the tidy table or None
    display,        \* what the page shows, in order (st.write / st.error)
    log             \* logging.error records, in order

vars == <<pc, page, ret, stock_info, currency_info, columns, stock_info_df, display, log>>

-----------------------------------------------------------------------------
(* Bounds of the model *)

MaxCols == 4
MaxDataRows == 3
MaxExtra == 1
MaxFQLen == 5
MaxPeriods == 9

-----------------------------------------------------------------------------
(* Text literals *)

FISCAL_QUARTER == <<"F", "i", "s", "c", "a", "l", " ", "Q", "u", "a", "r", "t", "e", "r">>
PERIOD_ENDING == <<"P", "e", "r", "i", "o", "d", " ", "E", "n", "d", "i", "n", "g">>
REVENUE == <<"R", "e", "v", "e", "n", "u", "e">>
NET_INCOME == <<"N", "e", "t", " ", "I", "n", "c", "o", "m", "e">>
YEAR == <<"Y", "e", "a", "r">>
QUARTER == <<"Q", "u", "a", "r", "t", "e", "r">>
HEADER == <<"H", "e", "a", "d", "e", "r">>
ROW_PREFIX == <<"R", "o", "w", " ">>
EPS == <<"E", "P", "S">>
GROSS_MARGIN == <<"G", "r", "o", "s", "s", " ", "M", "a", "r", "g", "i", "n">>
EMPTY == <<>>
Q4_2023 == <<"Q", "4", " ", "2", "0", "2", "3">>
Q3_2023 == <<"Q", "3", " ", "2", "0", "2", "3">>
Y2023_Q3 == <<"2", "0", "2", "3", " ", "Q", "3">>
Q2_2024 == <<"Q", "2", " ", "2", "0", "2", "4">>
DEC_31_2023 == <<"D", "e", "c", " ", "3", "1", ",", " ", "2", "0", "2", "3">>
SEP_30_2023 == <<"S", "e", "p", " ", "3", "0", ",", " ", "2", "0", "2", "3">>
MAR_31_2024 == <<"M", "a", "r", " ", "3", "1", ",", " ", "2", "0", "2", "4">>
JUN_5_2024 == <<"J", "u", "n", " ", "5", ",", " ", "2", "0", "2", "4">>
FEB_30_2024 == <<"F", "e", "b", " ", "3", "0", ",", " ", "2", "0", "2", "4">>
REPORTED == <<"R", "e", "p", "o", "r", "t", "e", "d">>
REPORTED_SP == <<"R", "e", "p", "o", "r", "t", "e", "d", " ">>
FY_APOS == <<"F", "Y", "'">>
Q1_PAREN == <<" ", "(", "Q", "1", ")">>
TWENTY_FOUR == <<"2", "4">>
V500 == <<"5", "0", "0">>
V50 == <<"5", "0">>
USD_TEXT == <<"U", "S", "D">>

-----------------------------------------------------------------------------
(* Python values *)

None == [none |-> TRUE]
NaT == [nat |-> TRUE]

Range(s) == {s[i] : i \in 1..Len(s)}

DigitChars == <<"0", "1", "2", "3", "4", "5", "6", "7", "8", "9">>

IsDigit(c) == c \in Range(DigitChars)

DigitVal(c) == (CHOOSE i \in 1..10 : DigitChars[i] = c) - 1

\* int(text) for a text of decimal digits
RECURSIVE StrToInt(_)
StrToInt(s) ==
    IF s = <<>> THEN 0
    ELSE 10 * StrToInt(SubSeq(s, 1, Len(s) - 1)) + DigitVal(s[Len(s)])

\* str(n) for n >= 0
RECURSIVE IntToStr(_)
IntToStr(n) ==
    IF n < 10 THEN <<DigitChars[n + 1]>>
    ELSE IntToStr(n \div 10) \o <<DigitChars[(n % 10) + 1]>>

IsSpace(c) == c = " "

\* str.strip()
RECURSIVE Strip(_)
Strip(s) ==
    IF s = <<>> THEN s
    ELSE IF IsSpace(s[1]) THEN Strip(Tail(s))
    ELSE IF IsSpace(s[Len(s)]) THEN Strip(SubSeq(s, 1, Len(s) - 1))
    ELSE s

\* tag.get_text(strip=True) of a cell holding one text node
GetText(cell) == Strip(cell)

-----------------------------------------------------------------------------
(* get_stock_financials, lines 16-60 *)

\* line 53: the key f"Row {i+1}" for the 0-based i; here i is 1-based
RowKey(i) == ROW_PREFIX \o IntToStr(i)

\* lines 39-43 without the test of line 42: every data row is kept
RetainedRows_NoFilter(headers, trs) ==
    [r \in 1..Len(trs) |-> [k \in 1..Len(trs[r].td) |-> GetText(trs[r].td[k])]]

\* lines 39-43: the data rows whose cell count equals the header count
RECURSIVE RetainedRows(_, _)
RetainedRows(headers, trs) ==
    IF trs = <<>> THEN <<>>
    ELSE LET cells == [k \in 1..Len(trs[1].td) |-> GetText(trs[1].td[k])]
         IN  IF Len(cells) = Len(headers)
             THEN <<cells>> \o RetainedRows(headers, Tail(trs))
             ELSE RetainedRows(headers, Tail(trs))

\* lines 45-46
InsertAdditional(additional_row, data) ==
    IF additional_row # <<>> THEN <<additional_row>> \o data ELSE data

\* lines 51-54: one record, an ordered mapping kept as <<key, value>> pairs
TransposedRow(headers, data, c) ==
    <<  <<HEADER, headers[c]>>  >> \o [i \in 1..Len(data) |-> <<RowKey(i), data[i][c]>>]

\* lines 48-55 with the loop of line 50 one column short
TransposedData_DropsLast(headers, data) ==
    [c \in 1..(Len(headers) - 1) |-> TransposedRow(headers, data, c)]

\* lines 48-55
TransposedData(headers, data) ==
    [c \in 1..Len(headers) |-> TransposedRow(headers, data, c)]

\* line 53 raises IndexError when a row of data is shorter than the headers
IndexErrorInTranspose(headers, data) ==
    \E i \in 1..Len(data) : Len(data[i]) < Len(headers)

\* json.dumps at line 57 and json.loads at lines 68 and 261 carry the list of
\* records, with its key order and its texts, unchanged; stock_info holds the
\* list itself.
GetStockFinancials(p) ==
    IF p.fetch # "ok"
    THEN [ret |-> None, log |-> <<[msg |-> "Error fetching the page", names |-> <<>>]>>]
    ELSE IF p.table = None
    THEN [ret |-> None, log |-> <<[msg |-> "Error processing table data: No table found", names |-> <<>>]>>]
    ELSE IF Len(p.table.rows) < 2
    THEN [ret |-> None, log |-> <<[msg |-> "Error processing table data: Insufficient table data", names |-> <<>>]>>]
    ELSE LET rows == p.table.rows
             headers == [k \in 1..Len(rows[1].th) |-> GetText(rows[1].th[k])]
             additional_row == [k \in 1..Len(rows[2].th) |-> GetText(rows[2].th[k])]
             data == InsertAdditional(additional_row,
                                      RetainedRows(headers, SubSeq(rows, 3, Len(rows))))
         IN  IF IndexErrorInTranspose(headers, data)
             THEN [ret |-> None, log |-> <<[msg |-> "Error processing table data: IndexError", names |-> <<>>]>>]
             ELSE [ret |-> [json |-> TransposedData(headers, data), currency |-> p.currency],
                   log |-> <<>>]

-----------------------------------------------------------------------------
(* convert_to_dataframe, lines 63-74 *)

DictKeys(obj) == [k \in 1..Len(obj) |-> obj[k][1]]

\* dict lookup; every record of the list carries the key (line 51-54 builds
\* all records over the same data)
DictGet(obj, key) == obj[CHOOSE k \in 1..Len(obj) : obj[k][1] = key][2]

\* pd.DataFrame(list of dicts): the columns are the keys, one row per record
DataFrameOf(records) ==
    LET keys == DictKeys(records[1])
    IN  [columns |-> keys,
         rows |-> [r \in 1..Len(records) |->
                     [k \in 1..Len(keys) |-> DictGet(records[r], keys[k])]]]

\* lines 66-74: None for a missing or empty text and for an empty list
ConvertToDataframe(stock_json) ==
    IF stock_json = None THEN None
    ELSE IF stock_json.json = <<>> THEN None
    ELSE DataFrameOf(stock_json.json)

-----------------------------------------------------------------------------
(* processed_dataframe, lines 77-111 *)

\* lines 84-85 without the [1:] of line 85: the promoted row stays a row
PromoteFirstRow_KeepsFirst(df) ==
    [columns |-> df.rows[1], rows |-> df.rows]

\* lines 84-85: the first row becomes the column names, the rest are the rows
PromoteFirstRow(df) ==
    [columns |-> df.rows[1], rows |-> Tail(df.rows)]

BaseColumns == <<FISCAL_QUARTER, PERIOD_ENDING, REVENUE, NET_INCOME>>

\* line 87
RequiredColumns(cols) == BaseColumns \o cols

\* line 88 over the four base columns only, the extra columns unchecked
MissingCols_BaseOnly(required_columns, df) ==
    SelectSeq(BaseColumns, LAMBDA col : col \notin Range(df.columns))

\* line 88
MissingCols(required_columns, df) ==
    SelectSeq(required_columns, LAMBDA col : col \notin Range(df.columns))

ColumnIndex(df, col) == CHOOSE k \in 1..Len(df.columns) : df.columns[k] = col

\* df[col] for one row
Cell(df, r, col) == df.rows[r][ColumnIndex(df, col)]

AllDigits(s) == \A k \in 1..Len(s) : IsDigit(s[k])

\* re.search(r'(\d{4})') from position i: where the match starts, 0 for none
RECURSIVE SearchYear(_, _)
SearchYear(s, i) ==
    IF i + 3 > Len(s) THEN 0
    ELSE IF AllDigits(SubSeq(s, i, i + 3)) THEN i
    ELSE SearchYear(s, i + 1)

\* line 94: .str.extract(r'(\d{4})').fillna(0).astype(int)
ExtractYear(s) ==
    LET i == SearchYear(s, 1)
    IN  IF i = 0 THEN 0 ELSE StrToInt(SubSeq(s, i, i + 3))

\* re.search(r'(?:Q)?(\d)') from position i: the index of the captured digit,
\* 0 for none. At each position the optional Q is tried first, then skipped.
RECURSIVE SearchQuarter(_, _)
SearchQuarter(s, i) ==
    IF i > Len(s) THEN 0
    ELSE IF s[i] = "Q" /\ i + 1 <= Len(s) /\ IsDigit(s[i + 1]) THEN i + 1
    ELSE IF IsDigit(s[i]) THEN i
    ELSE SearchQuarter(s, i + 1)

\* line 95: 'Q' + .str.extract(r'(?:Q)?(\d)').fillna(0).astype(int).astype(str)
ExtractQuarter(s) ==
    LET i == SearchQuarter(s, 1)
    IN  <<"Q">> \o IntToStr(IF i = 0 THEN 0 ELSE StrToInt(<<s[i]>>))

\* line 102: date_string.split("'")[-1]
RECURSIVE AfterLastApostrophe(_)
AfterLastApostrophe(s) ==
    IF "'" \notin Range(s) THEN s
    ELSE AfterLastApostrophe(Tail(s))

MonthAbbr ==
    << <<"J", "a", "n">>, <<"F", "e", "b">>, <<"M", "a", "r">>, <<"A", "p", "r">>,
       <<"M", "a", "y">>, <<"J", "u", "n">>, <<"J", "u", "l">>, <<"A", "u", "g">>,
       <<"S", "e", "p">>, <<"O", "c", "t">>, <<"N", "o", "v">>, <<"D", "e", "c">> >>

MonthOf(t) ==
    IF \E m \in 1..12 : MonthAbbr[m] = t
    THEN CHOOSE m \in 1..12 : MonthAbbr[m] = t
    ELSE 0

IsLeap(y) == (y % 4 = 0 /\ y % 100 # 0) \/ y % 400 = 0

DaysInMonth(y, m) ==
    IF m = 2 THEN (IF IsLeap(y) THEN 29 ELSE 28)
    ELSE IF m \in {4, 6, 9, 11} THEN 30 ELSE 31

\* line 103: pd.to_datetime(text, errors='coerce') on the texts of this model:
\* "Mon D, YYYY" and "Mon DD, YYYY" with a real calendar day inside the
\* Timestamp range parse to that day; the empty text, a text with a word that
\* is no date token, an impossible day and a bare day number (its default
\* year 1 is out of the Timestamp range) coerce to NaT.
ToDatetime(s) ==
    LET n == Len(s)
        dl == n - 10
    IN  IF n \notin {11, 12} THEN NaT
        ELSE LET mon == MonthOf(SubSeq(s, 1, 3))
                 dayS == SubSeq(s, 5, 4 + dl)
                 yearS == SubSeq(s, n - 3, n)
             IN  IF /\ mon # 0
                    /\ s[4] = " "
                    /\ AllDigits(dayS)
                    /\ s[5 + dl] = ","
                    /\ s[6 + dl] = " "
                    /\ AllDigits(yearS)
                    /\ StrToInt(yearS) \in 1678..2261
                    /\ StrToInt(dayS) \in 1..DaysInMonth(StrToInt(yearS), mon)
                 THEN [ts |-> <<StrToInt(yearS), mon, StrToInt(dayS)>>]
                 ELSE NaT

\* .date() raising on NaT instead of returning it
DateOf_RaisesOnNaT(t) == IF t = NaT THEN [raise |-> TRUE] ELSE [date |-> t.ts]

\* Timestamp.date() gives the calendar date; NaT.date() gives NaT
DateOf(t) == IF t = NaT THEN NaT ELSE [date |-> t.ts]

\* lines 98-103 (every cell of the table is a str: line 99 never returns)
clean_date(date_string) ==
    LET s == IF "'" \in Range(date_string)
             THEN AfterLastApostrophe(date_string)
             ELSE date_string
    IN  DateOf(ToDatetime(Strip(s)))

\* line 106: .iloc[:8]
TruncateRows == 8

\* line 106 as .iloc[-8:]: the last rows instead of the first
Head8_Last(rows) ==
    SubSeq(rows, IF Len(rows) < TruncateRows THEN 1 ELSE Len(rows) - TruncateRows + 1, Len(rows))

\* line 106
Head8(rows) == SubSeq(rows, 1, IF Len(rows) < TruncateRows THEN Len(rows) ELSE TruncateRows)

\* lines 92-96 and 105: one row of the tidy table, in the column order
\* Period Ending, Revenue, Net Income, extras..., Year, Quarter
TidyRow(df, r, cols) ==
    <<clean_date(Cell(df, r, PERIOD_ENDING)),
      [str |-> Cell(df, r, REVENUE)],
      [str |-> Cell(df, r, NET_INCOME)]>>
    \o [k \in 1..Len(cols) |-> [str |-> Cell(df, r, cols[k])]]
    \o <<[int |-> ExtractYear(Cell(df, r, FISCAL_QUARTER))],
         [str |-> ExtractQuarter(Cell(df, r, FISCAL_QUARTER))]>>

TidyColumns(cols) == <<PERIOD_ENDING, REVENUE, NET_INCOME>> \o cols \o <<YEAR, QUARTER>>

\* an exception raised inside clean_date would leave the try block at line 109
Raised(row) == \E k \in 1..Len(row) : row[k] = [raise |-> TRUE]

\* lines 77-111: the returned table (or None) and what is logged
ProcessedDataframe(stock_json, cols) ==
    LET raw == ConvertToDataframe(stock_json)
    IN  IF raw = None
        THEN [df |-> None,
              log |-> << [msg |-> "Error decoding JSON", names |-> <<>>],
                         [msg |-> "Error processing DataFrame: DataFrame is empty or invalid", names |-> <<>>] >>]
        ELSE LET df == PromoteFirstRow(raw)
                 required_columns == RequiredColumns(cols)
                 missing_cols == MissingCols(required_columns, df)
             IN  IF missing_cols # <<>>
                 THEN [df |-> None,
                       log |-> << [msg |-> "Error processing DataFrame: Missing expected columns",
                                   names |-> missing_cols] >>]
                 ELSE LET tidy == [r \in 1..Len(df.rows) |-> TidyRow(df, r, cols)]
                      IN  IF \E r \in 1..Len(tidy) : Raised(tidy[r])
                          THEN [df |-> None,
                                log |-> << [msg |-> "Error processing DataFrame", names |-> <<>>] >>]
                          ELSE [df |-> [columns |-> TidyColumns(cols), rows |-> Head8(tidy)],
                                log |-> <<>>]

-----------------------------------------------------------------------------
(* The pages a request can meet *)

ThRow(cells) == [th |-> cells, td |-> <<>>]
TdRow(cells) == [th |-> <<>>, td |-> cells]

CurrencyTag == [text |-> USD_TEXT]

\* the metric labels of the first column, per page variant: 1 has every
\* required metric, 2 lacks Net Income, 3 is 1 with padded label cells
MetricLabels(variant) ==
    IF variant = 2 THEN <<REVENUE, EPS, GROSS_MARGIN>>
    ELSE <<REVENUE, NET_INCOME, EPS, GROSS_MARGIN>>

MetricLabel(variant, k) ==
    LET known == MetricLabels(variant)
        name == IF k <= Len(known) THEN known[k] ELSE <<"M">> \o IntToStr(k)
    IN  IF variant = 3 THEN <<" ">> \o name \o <<" ">> ELSE name

FQPool == <<Q4_2023, Q3_2023, Y2023_Q3, Q2_2024>>
PEPool == <<DEC_31_2023, SEP_30_2023, REPORTED, JUN_5_2024>>

Cyclic(pool, k) == pool[((k - 1) % Len(pool)) + 1]

\* the cell of table row r (0: header row, 1: second row, 2..: data rows) at
\* column c, in the layout of the scraped site: labels in the first column,
\* one column per fiscal period after it
GridCell(variant, r, c) ==
    IF c = 1
    THEN (IF r = 0 THEN FISCAL_QUARTER
          ELSE IF r = 1 THEN PERIOD_ENDING
          ELSE MetricLabel(variant, r - 1))
    ELSE IF r = 0 THEN Cyclic(FQPool, c - 1)
    ELSE IF r = 1 THEN Cyclic(PEPool, c - 1)
    ELSE IntToStr(100 * r + c)

GridRow(variant, r, width) == [c \in 1..width |-> GridCell(variant, r, c)]

\* a malformed data row is one cell too long (odd rows) or too short (even)
DataWidth(h, k, bad) ==
    IF k \notin bad THEN h
    ELSE IF k % 2 = 1 THEN h + 1
    ELSE IF h > 0 THEN h - 1 ELSE h + 1

GenTable(h, nTr, second, bad, variant) ==
    [rows |-> [r \in 1..nTr |->
        IF r = 1 THEN ThRow(GridRow(variant, 0, h))
        ELSE IF r = 2
        THEN (IF second = "th" THEN ThRow(GridRow(variant, 1, h))
              ELSE IF second = "short" THEN ThRow(GridRow(variant, 1, h - 1))
              ELSE IF second = "long" THEN ThRow(GridRow(variant, 1, h + 1))
              ELSE TdRow(GridRow(variant, 1, h)))
        ELSE TdRow(GridRow(variant, r - 1, DataWidth(h, r - 2, bad)))]]

GenTables ==
    {GenTable(h, nTr, second, bad, variant) :
        h \in 0..MaxCols, nTr \in 0..(MaxDataRows + 2),
        second \in {"th", "short", "long", "td"},
        bad \in SUBSET (1..MaxDataRows), variant \in 1..3}

\* metric names in the header row, periods below
MetricHeaderTable ==
    [rows |-> << ThRow(<<FISCAL_QUARTER, PERIOD_ENDING, REVENUE, NET_INCOME>>),
                 ThRow(<<EMPTY, DEC_31_2023, EMPTY, EMPTY>>),
                 TdRow(<<Q4_2023, REPORTED, V500, V50>>) >>]

\* the same figures in the layout of the scraped site
PeriodHeaderTable ==
    [rows |-> << ThRow(<<FISCAL_QUARTER, Q4_2023>>),
                 ThRow(<<PERIOD_ENDING, DEC_31_2023>>),
                 TdRow(<<REVENUE, V500>>),
                 TdRow(<<NET_INCOME, V50>>) >>]

Pages ==
    {[fetch |-> "error", table |-> None, currency |-> None]}
    \cup {[fetch |-> "ok", table |-> t, currency |-> c] :
            t \in {None} \cup GenTables \cup {MetricHeaderTable, PeriodHeaderTable},
            c \in {None, CurrencyTag}}

-----------------------------------------------------------------------------
(* The request handler, lines 257-280 *)

ExcludeValues == {FISCAL_QUARTER, PERIOD_ENDING, REVENUE, NET_INCOME}

\* line 262: the values of the first record that are not excluded
ColumnsNames(json) ==
    SelectSeq([k \in 1..Len(json[1]) |-> json[1][k][2]],
              LAMBDA value : value \notin ExcludeValues)

RECURSIVE PickIndices(_, _)
PickIndices(options, idx) ==
    IF idx = {} THEN <<>>
    ELSE LET m == CHOOSE i \in idx : \A j \in idx : i <= j
         IN  <<options[m]>> \o PickIndices(options, idx \ {m})

\* line 263: what a user can pick from the options, at most MaxExtra of them
Selections(options) ==
    {PickIndices(options, idx) :
        idx \in {x \in SUBSET (1..Len(options)) : Cardinality(x) <= MaxExtra}}

Init ==
    /\ pc = "get_stock_financials"
    /\ page \in Pages
    /\ ret = None
    /\ stock_info = None
    /\ currency_info = None
    /\ columns = <<>>
    /\ stock_info_df = None
    /\ display = <<>>
    /\ log = <<>>

\* line 257, the call
CallGetStockFinancials ==
    /\ pc = "get_stock_financials"
    /\ LET r == GetStockFinancials(page)
       IN  /\ ret' = r.ret
           /\ log' = log \o r.log
    /\ pc' = "unpack"
    /\ UNCHANGED <<page, stock_info, currency_info, columns, stock_info_df, display>>

\* lines 257-262 and 279-280: the tuple assignment (TypeError on None), the
\* test of stock_info, and the option list (IndexError on an empty list)
UnpackResult ==
    /\ pc = "unpack"
    /\ IF ret = None
       THEN /\ pc' = "exception"
            /\ UNCHANGED <<stock_info, currency_info, display>>
       ELSE /\ stock_info' = [json |-> ret.json]
            /\ currency_info' = ret.currency
            /\ IF stock_info' = None
               THEN /\ display' = display \o <<"error: Failed to fetch the financial data">>
                    /\ pc' = "done"
               ELSE /\ display' = display
                    /\ pc' = IF ret.json = <<>> THEN "exception" ELSE "multiselect"
    /\ UNCHANGED <<page, ret, columns, stock_info_df, log>>

\* line 263
Multiselect ==
    /\ pc = "multiselect"
    /\ \E sel \in Selections(ColumnsNames(stock_info.json)) : columns' = sel
    /\ pc' = "processed_dataframe"
    /\ UNCHANGED <<page, ret, stock_info, currency_info, stock_info_df, display, log>>

\* line 264
CallProcessedDataframe ==
    /\ pc = "processed_dataframe"
    /\ LET r == ProcessedDataframe(stock_info, columns)
       IN  /\ stock_info_df' = r.df
           /\ log' = log \o r.log
    /\ pc' = "render"
    /\ UNCHANGED <<page, ret, stock_info, currency_info, columns, display>>

\* lines 265-278 (the report request, lines 270-276, is left out);
\* currency_info.text raises AttributeError on None
Render ==
    /\ pc = "render"
    /\ IF stock_info_df # None
       THEN IF currency_info = None
            THEN /\ display' = display \o <<"Financial Data Successfully Retrieved">>
                 /\ pc' = "exception"
            ELSE /\ display' = display \o <<"Financial Data Successfully Retrieved",
                                            "currency_info.text", "dataframe">>
                 /\ pc' = "done"
       ELSE /\ display' = display \o <<"error: Failed to process the financial data">>
            /\ pc' = "done"
    /\ UNCHANGED <<page, ret, stock_info, currency_info, columns, stock_info_df, log>>

Next ==
    \/ CallGetStockFinancials
    \/ UnpackResult
    \/ Multiselect
    \/ CallProcessedDataframe
    \/ Render

Spec == Init /\ [][Next]_vars

-----------------------------------------------------------------------------
(* processed_dataframe called on its own: the inputs it is given *)

\* the JSON text get_stock_financials writes for a table with these column
\* names and these period rows
MkJson(names, periods) ==
    [json |-> [r \in 1..(Len(periods) + 1) |->
        LET src == IF r = 1 THEN names ELSE periods[r - 1]
        IN  << <<HEADER, src[1]>> >>
            \o [i \in 1..(Len(names) - 1) |-> <<RowKey(i), src[i + 1]>>]]]

FQAlphabet == {"Q", "2", "0", "3", " "}

FQStrings ==
    UNION {[1..n -> FQAlphabet] : n \in 0..MaxFQLen}
    \cup {Q4_2023, Q3_2023, Y2023_Q3, Q2_2024}

PEPrefixes == {EMPTY, REPORTED_SP, FY_APOS, <<" ">>}
PECores == {MAR_31_2024, DEC_31_2023, JUN_5_2024, FEB_30_2024, TWENTY_FOUR, REPORTED, EMPTY}
PESuffixes == {EMPTY, Q1_PAREN, <<" ">>}

PEStrings == {pre \o core \o suf : pre \in PEPrefixes, core \in PECores, suf \in PESuffixes}

\* one period, every Fiscal Quarter text
FQInputs ==
    {[stock_json |-> MkJson(BaseColumns, << <<fq, DEC_31_2023, V500, V50>> >>),
      columns |-> <<>>] : fq \in FQStrings}

\* two periods, every Period Ending text in the first
PEInputs ==
    {[stock_json |-> MkJson(BaseColumns, << <<Q4_2023, pe1, V500, V50>>,
                                            <<Q3_2023, pe2, IntToStr(400), IntToStr(40)>> >>),
      columns |-> <<>>] : pe1 \in PEStrings, pe2 \in {DEC_31_2023, REPORTED}}

AllNames == <<FISCAL_QUARTER, PERIOD_ENDING, REVENUE, NET_INCOME, EPS, GROSS_MARGIN>>
ExtraPool == <<EPS, GROSS_MARGIN>>

ShapeCell(name, p, k) ==
    IF name = FISCAL_QUARTER THEN Cyclic(FQPool, p)
    ELSE IF name = PERIOD_ENDING THEN Cyclic(PEPool, p)
    ELSE IntToStr(100 * p + k)

\* tables with any of the six columns present, 0..MaxPeriods periods
ShapeInputs ==
    {[stock_json |->
        LET names == SelectSeq(AllNames, LAMBDA nm : nm \in present)
        IN  MkJson(names, [p \in 1..n |-> [k \in 1..Len(names) |-> ShapeCell(names[k], p, k)]]),
      columns |-> cols] :
        present \in (SUBSET Range(AllNames)) \ {{}},
        n \in 0..MaxPeriods,
        cols \in Selections(ExtraPool)}

NormalizeInputs ==
    FQInputs \cup PEInputs \cup ShapeInputs
    \cup {[stock_json |-> None, columns |-> <<>>], [stock_json |-> [json |-> <<>>], columns |-> <<>>]}

InitNormalize ==
    /\ pc = "processed_dataframe"
    /\ page = [fetch |-> "error", table |-> None, currency |-> None]
    /\ ret = None
    /\ \E inp \in NormalizeInputs :
         /\ stock_info = inp.stock_json
         /\ columns = inp.columns
    /\ currency_info = None
    /\ stock_info_df = None
    /\ display = <<>>
    /\ log = <<>>

NextNormalize == CallProcessedDataframe

SpecNormalize == InitNormalize /\ [][NextNormalize]_vars

-----------------------------------------------------------------------------
(* The source table of a page, read off the page itself *)

SrcHeaders(p) == [k \in 1..Len(p.table.rows[1].th) |-> Strip(p.table.rows[1].th[k])]

SrcSecondary(p) == [k \in 1..Len(p.table.rows[2].th) |-> Strip(p.table.rows[2].th[k])]

SrcDataRows(p) ==
    [k \in 1..(Len(p.table.rows) - 2) |->
        [j \in 1..Len(p.table.rows[k + 2].td) |-> Strip(p.table.rows[k + 2].td[j])]]

SrcConforming(p) == SelectSeq(SrcDataRows(p), LAMBDA row : Len(row) = Len(SrcHeaders(p)))

\* the rows the transposition works on: the secondary header row, when it has
\* cells, then the conforming data rows
SrcRows(p) ==
    IF SrcSecondary(p) = <<>> THEN SrcConforming(p)
    ELSE <<SrcSecondary(p)>> \o SrcConforming(p)

\* header row first, then SrcRows
SrcGrid(p) == <<SrcHeaders(p)>> \o SrcRows(p)

WellFormed(p) ==
    /\ Len(SrcHeaders(p)) >= 1
    /\ Len(SrcSecondary(p)) \in {0, Len(SrcHeaders(p))}

Extracted == ret # None

\* lines 80-85 applied to the extractor's output
Pivoted == PromoteFirstRow(ConvertToDataframe([json |-> ret.json]))

-----------------------------------------------------------------------------
(* C1 *)

\* C1 as stated: for a well-formed source table with H headers and K retained
\* data rows, extraction then pivot gives K rows (K+1 with a non-empty
\* secondary header row) and H columns, with the source's values at the same
\* coordinates.
C1_RoundTripAsStated ==
    (Extracted /\ WellFormed(page)) =>
        /\ Len(Pivoted.rows) = Len(SrcRows(page))
        /\ Len(Pivoted.columns) = Len(SrcHeaders(page))
        /\ \A i \in 1..Len(Pivoted.rows) : \A c \in 1..Len(Pivoted.columns) :
               /\ i <= Len(SrcRows(page))
               /\ c <= Len(SrcHeaders(page))
               /\ Pivoted.rows[i][c] = SrcRows(page)[i][c]

\* C1 amended: extraction then pivot gives the source table transposed, with
\* the source's first column as the column names: H-1 rows and K+1 columns
\* (K+2 with a non-empty secondary header row); column j is named by the first
\* cell of source row j (the header row counted as row 1), and the value at
\* row p, column j is the source's value at row j, column p+1.
C1_PivotIsTransposeWithLabels ==
    (Extracted /\ WellFormed(page)) =>
        /\ Len(Pivoted.rows) = Len(SrcHeaders(page)) - 1
        /\ Len(Pivoted.columns) = Len(SrcRows(page)) + 1
        /\ \A j \in 1..Len(SrcGrid(page)) :
               /\ Pivoted.columns[j] = SrcGrid(page)[j][1]
               /\ \A q \in 1..(Len(SrcHeaders(page)) - 1) :
                      Pivoted.rows[q][j] = SrcGrid(page)[j][q + 1]

C1_Witness ==
    /\ pc = "unpack"
    /\ Extracted
    /\ WellFormed(page)
    /\ Len(SrcHeaders(page)) >= 3
    /\ SrcSecondary(page) # <<>>
    /\ Len(SrcConforming(page)) >= 2
    /\ Len(Pivoted.rows) = Len(SrcHeaders(page)) - 1

-----------------------------------------------------------------------------
(* C2 *)

TidyQ4_2023 ==
    [columns |-> <<PERIOD_ENDING, REVENUE, NET_INCOME, YEAR, QUARTER>>,
     rows |-> << << [date |-> <<2023, 12, 31>>], [str |-> V500], [str |-> V50],
                    [int |-> 2023], [str |-> <<"Q", "4">>] >> >>]

LastLog == log[Len(log)]

\* C2 as stated: for headers [Fiscal Quarter, Period Ending, Revenue, Net
\* Income], secondary header row ["", "Dec 31, 2023", "", ""] and data row
\* [Q4 2023, Reported, 500, 50], extraction then normalization with no extra
\* columns yields exactly one tidy row: Year 2023, Quarter Q4, Period Ending
\* 2023-12-31, Revenue 500, Net Income 50.
C2_ScenarioAsStated ==
    (pc = "render" /\ page.table = MetricHeaderTable /\ columns = <<>>) =>
        stock_info_df = TidyQ4_2023

\* C2 amended: for that table extraction succeeds and normalization with no
\* extra columns fails, reporting Period Ending, Revenue and Net Income
\* missing, and returns no table; the tidy row (2023, Q4, 2023-12-31, 500, 50)
\* is what the same figures yield when the metric labels are the first column:
\* headers [Fiscal Quarter, Q4 2023], secondary header row [Period Ending,
\* Dec 31, 2023], data rows [Revenue, 500] and [Net Income, 50].
C2_ScenarioAmended ==
    /\ (pc = "render" /\ page.table = MetricHeaderTable /\ columns = <<>>) =>
           /\ Extracted
           /\ Pivoted.columns = <<FISCAL_QUARTER, EMPTY, Q4_2023>>
           /\ stock_info_df = None
           /\ LastLog.names = <<PERIOD_ENDING, REVENUE, NET_INCOME>>
    /\ (pc = "render" /\ page.table = PeriodHeaderTable /\ columns = <<>>) =>
           stock_info_df = TidyQ4_2023

C2_Witness ==
    /\ pc = "render"
    /\ page.table = PeriodHeaderTable
    /\ columns = <<>>
    /\ stock_info_df # None
    /\ Len(stock_info_df.rows) = 1

-----------------------------------------------------------------------------
(* The table processed_dataframe is given, pivoted (lines 80-85) *)

InputValid == ConvertToDataframe(stock_info) # None

PivotedInput == PromoteFirstRow(ConvertToDataframe(stock_info))

HasColumn(df, col) == \E k \in 1..Len(df.columns) : df.columns[k] = col

\* the required columns that the pivoted input lacks, in required order
RECURSIVE AbsentFrom(_, _)
AbsentFrom(required, df) ==
    IF required = <<>> THEN <<>>
    ELSE (IF HasColumn(df, Head(required)) THEN <<>> ELSE <<Head(required)>>)
         \o AbsentFrom(Tail(required), df)

Normalized == pc = "render" /\ stock_info_df # None

\* the index of a column of the tidy table
TidyIndex(col) == CHOOSE k \in 1..Len(stock_info_df.columns) : stock_info_df.columns[k] = col

TidyCell(r, col) == stock_info_df.rows[r][TidyIndex(col)]

Min(a, b) == IF a < b THEN a ELSE b

-----------------------------------------------------------------------------
(* C3 *)

NoDigits(s) == \A k \in 1..Len(s) : ~IsDigit(s[k])

\* the first run of four digits, as a number; 0 when there is none
RECURSIVE FirstFourDigitRun(_)
FirstFourDigitRun(s) ==
    IF Len(s) < 4 THEN 0
    ELSE IF \A k \in 1..4 : IsDigit(s[k])
         THEN 1000 * DigitVal(s[1]) + 100 * DigitVal(s[2]) + 10 * DigitVal(s[3]) + DigitVal(s[4])
         ELSE FirstFourDigitRun(Tail(s))

\* C3: for every Fiscal Quarter text Year is its first run of four digits (0
\* without one); "2023 Q3" gives Year 2023 and Quarter Q3, "Q2 2024" gives
\* Year 2024 and Quarter Q2, a text without digits gives Year 0 and Quarter Q0.
C3_YearQuarterAsStated ==
    Normalized =>
        \A r \in 1..Len(stock_info_df.rows) :
            LET fq == Cell(PivotedInput, r, FISCAL_QUARTER)
            IN  /\ TidyCell(r, YEAR) = [int |-> FirstFourDigitRun(fq)]
                /\ fq = Y2023_Q3 =>
                       /\ TidyCell(r, YEAR) = [int |-> 2023]
                       /\ TidyCell(r, QUARTER) = [str |-> <<"Q", "3">>]
                /\ fq = Q2_2024 =>
                       /\ TidyCell(r, YEAR) = [int |-> 2024]
                       /\ TidyCell(r, QUARTER) = [str |-> <<"Q", "2">>]
                /\ NoDigits(fq) =>
                       /\ TidyCell(r, YEAR) = [int |-> 0]
                       /\ TidyCell(r, QUARTER) = [str |-> <<"Q", "0">>]

-----------------------------------------------------------------------------
(* C4 *)

\* the text clean_date hands to the parser
ParserInput(pe) == Strip(IF "'" \in Range(pe) THEN AfterLastApostrophe(pe) ELSE pe)

Unparseable(pe) == ToDatetime(ParserInput(pe)) = NaT

\* C4: a Period Ending text that does not parse makes only that row's Period
\* Ending null: whenever the pivoted input has every required column, a table
\* is returned, it keeps every pivoted row (up to 8), each unparseable row has
\* a null Period Ending and each parseable row a date, and the other fields of
\* every row are the pivoted values.
C4_DateFailureDegrades ==
    (pc = "render" /\ InputValid
        /\ AbsentFrom(BaseColumns \o columns, PivotedInput) = <<>>) =>
        /\ stock_info_df # None
        /\ Len(stock_info_df.rows) = Min(Len(PivotedInput.rows), TruncateRows)
        /\ \A r \in 1..Len(stock_info_df.rows) :
               /\ Unparseable(Cell(PivotedInput, r, PERIOD_ENDING))
                      <=> TidyCell(r, PERIOD_ENDING) = NaT
               /\ ~Unparseable(Cell(PivotedInput, r, PERIOD_ENDING))
                      => DOMAIN TidyCell(r, PERIOD_ENDING) = {"date"}
               /\ TidyCell(r, REVENUE) = [str |-> Cell(PivotedInput, r, REVENUE)]
               /\ TidyCell(r, NET_INCOME) = [str |-> Cell(PivotedInput, r, NET_INCOME)]
               /\ \A k \in 1..Len(columns) :
                      TidyCell(r, columns[k]) = [str |-> Cell(PivotedInput, r, columns[k])]
               /\ DOMAIN TidyCell(r, YEAR) = {"int"}
               /\ DOMAIN TidyCell(r, QUARTER) = {"str"}

C4_Witness ==
    /\ Normalized
    /\ Len(stock_info_df.rows) = 2
    /\ Cell(PivotedInput, 1, PERIOD_ENDING) = FY_APOS \o TWENTY_FOUR
    /\ TidyCell(1, PERIOD_ENDING) = NaT
    /\ TidyCell(1, REVENUE) = [str |-> V500]
    /\ TidyCell(2, PERIOD_ENDING) = [date |-> <<2023, 12, 31>>]

-----------------------------------------------------------------------------
(* C5 *)

\* the first month-day-year substring (Mon D, YYYY or Mon DD, YYYY) of a text,
\* the two-digit day tried first; <<>> when there is none
RECURSIVE FirstMDY(_)
FirstMDY(s) ==
    IF Len(s) < 11 THEN <<>>
    ELSE IF Len(s) >= 12 /\ ToDatetime(SubSeq(s, 1, 12)) # NaT THEN SubSeq(s, 1, 12)
    ELSE IF ToDatetime(SubSeq(s, 1, 11)) # NaT THEN SubSeq(s, 1, 11)
    ELSE FirstMDY(Tail(s))

\* C5: a Period Ending text without an apostrophe that contains a
\* month-day-year substring among other text yields the date of that
\* substring; "Reported Mar 31, 2024 (Q1)" yields 2024-03-31.
C5_DatePatternAsStated ==
    Normalized =>
        \A r \in 1..Len(stock_info_df.rows) :
            LET pe == Cell(PivotedInput, r, PERIOD_ENDING)
            IN  /\ ("'" \notin Range(pe) /\ FirstMDY(pe) # <<>>) =>
                       TidyCell(r, PERIOD_ENDING) = [date |-> ToDatetime(FirstMDY(pe)).ts]
                /\ pe = REPORTED_SP \o MAR_31_2024 \o Q1_PAREN =>
                       TidyCell(r, PERIOD_ENDING) = [date |-> <<2024, 3, 31>>]

-----------------------------------------------------------------------------
(* C6 *)

\* C6: whenever the pivoted table lacks a required column (the four base
\* columns, then the caller's extra columns), processed_dataframe returns no
\* table and the missing list it reports is exactly the absent required
\* columns in required order; a table lacking only Net Income reports
\* [Net Income].
C6_MissingColumnsAbort ==
    (pc = "render" /\ InputValid) =>
        LET absent == AbsentFrom(BaseColumns \o columns, PivotedInput)
        IN  /\ absent # <<>> =>
                   /\ stock_info_df = None
                   /\ LastLog.names = absent
            /\ ((\A k \in 1..Len(BaseColumns \o columns) :
                     HasColumn(PivotedInput, (BaseColumns \o columns)[k])
                         <=> (BaseColumns \o columns)[k] # NET_INCOME)) =>
                   /\ stock_info_df = None
                   /\ LastLog.names = <<NET_INCOME>>

C6_Witness ==
    /\ pc = "render"
    /\ InputValid
    /\ columns = <<GROSS_MARGIN>>
    /\ HasColumn(PivotedInput, REVENUE)
    /\ stock_info_df = None
    /\ LastLog.names = <<NET_INCOME, GROSS_MARGIN>>

-----------------------------------------------------------------------------
(* C7 *)

\* C7: in every extraction that succeeds, each transposed record holds its
\* header and then one "Row i" value per row of SrcRows, in order: the
\* secondary header row when it has cells, then the data rows whose cell count
\* equals the header count; a data row of another width contributes nothing.
C7_WidthFiltering ==
    Extracted =>
        /\ Len(ret.json) = Len(SrcHeaders(page))
        /\ \A c \in 1..Len(ret.json) :
               /\ Len(ret.json[c]) = 1 + Len(SrcRows(page))
               /\ ret.json[c][1] = <<HEADER, SrcHeaders(page)[c]>>
               /\ \A i \in 1..Len(SrcRows(page)) :
                      ret.json[c][i + 1] = <<RowKey(i), SrcRows(page)[i][c]>>

C7_Witness ==
    /\ pc = "unpack"
    /\ Extracted
    /\ Len(SrcHeaders(page)) >= 2
    /\ Len(SrcDataRows(page)) = 3
    /\ Len(SrcDataRows(page)[1]) # Len(SrcHeaders(page))
    /\ Len(SrcConforming(page)) = 2
    /\ Len(ret.json[1]) = 1 + Len(SrcRows(page))

-----------------------------------------------------------------------------
(* C8 *)

\* C8: a returned table has at most 8 rows; when the pivoted table has 8 rows
\* or more it has exactly 8, and its rows are the first pivoted rows in their
\* order (row r carries the Revenue and Net Income of pivoted row r, and the
\* year of its Fiscal Quarter).
C8_RowTruncation ==
    Normalized =>
        /\ Len(stock_info_df.rows) <= 8
        /\ Len(PivotedInput.rows) >= 8 => Len(stock_info_df.rows) = 8
        /\ Len(stock_info_df.rows) <= Len(PivotedInput.rows)
        /\ \A r \in 1..Len(stock_info_df.rows) :
               /\ TidyCell(r, REVENUE) = [str |-> Cell(PivotedInput, r, REVENUE)]
               /\ TidyCell(r, NET_INCOME) = [str |-> Cell(PivotedInput, r, NET_INCOME)]
               /\ TidyCell(r, YEAR) =
                      [int |-> FirstFourDigitRun(Cell(PivotedInput, r, FISCAL_QUARTER))]

C8_Witness ==
    /\ Normalized
    /\ Len(PivotedInput.rows) > 8
    /\ Len(stock_info_df.rows) = 8
    /\ TidyCell(8, REVENUE) = [str |-> Cell(PivotedInput, 8, REVENUE)]
    /\ TidyCell(8, REVENUE) # [str |-> Cell(PivotedInput, 9, REVENUE)]

-----------------------------------------------------------------------------
(* C9 and C10 *)

Ended == pc \in {"done", "exception"}

\* C9: a request whose fetch or extraction fails ends showing "Failed to fetch
\* the financial data", with the normalizer never run, and never ends in an
\* unhandled exception or a success display.
C9_FailureReachesErrorDisplay ==
    (Ended /\ ~Extracted) =>
        /\ pc = "done"
        /\ display = <<"error: Failed to fetch the financial data">>
        /\ stock_info_df = None

\* C10: a request for a page with a table that normalizes and without the
\* currency element is extracted with an empty context label and ends showing
\* the tidy table, not in an error or an exception.
C10_AbsentCurrencyIsNoError ==
    (Ended /\ page.currency = None /\ stock_info_df # None) =>
        /\ Extracted
        /\ ret.currency = None
        /\ pc = "done"
        /\ \E k \in 1..Len(display) : display[k] = "dataframe"

====
